---- MODULE Spec2Model ----
(***************************************************************************)
(* The transaction lifecycle pipeline of ripple-rest: api/transact.js      *)
(* (mode selection, validation, the two async.waterfall pipelines) and the *)
(* test harness utilities (closeLedgers, teardown, setupServer), together  *)
(* with the pending-transaction tracker they drive.                        *)
(***************************************************************************)
EXTENDS Integers, Sequences, FiniteSets, TLC

(***************************************************************************)
(* Bounds of the model.                                                    *)
(***************************************************************************)
MaxCalls == 2

Calls == 1 .. MaxCalls

(***************************************************************************)
(* JavaScript values, as far as the code distinguishes them.               *)
(***************************************************************************)
JSFalse == [t |-> "boolean", v |-> "false"]
JSTrue == [t |-> "boolean", v |-> "true"]
JSUndefined == [t |-> "undefined", v |-> "undefined"]
JSNull == [t |-> "object", v |-> "null"]
JSZero == [t |-> "number", v |-> "0"]
JSString(s) == [t |-> "string", v |-> s]

\* the === operator: same type and same value
StrictEquals(a, b) == a.t = b.t /\ a.v = b.v

\* the truthiness test of  cond ? x : y
ToBoolean(a) ==
  CASE a.t = "boolean" -> a.v = "true"
    [] a.t = "undefined" -> FALSE
    [] a.t = "object" -> a.v # "null"
    [] a.t = "number" -> a.v # "0"
    [] a.t = "string" -> a.v # ""

\* plain objects are functions from key names to values
EmptyObject == [k \in {} |-> JSUndefined]

\* obj.key : undefined when the key is missing
Get(obj, key) == IF key \in DOMAIN obj THEN obj[key] ELSE JSUndefined

\* _.assign({}, a, b): a fresh object, b's keys win
Assign(a, b) ==
  [k \in (DOMAIN a) \cup (DOMAIN b) |-> IF k \in DOMAIN b THEN b[k] ELSE a[k]]

(***************************************************************************)
(* The inputs of transact.                                                 *)
(***************************************************************************)
ValidAddresses == {"VALID", "OTHER"}
Addresses == ValidAddresses \cup {"notAnAddress"}

SecretOf(address) == JSString("secret_" \o address)
Secrets == {JSUndefined, JSString("")} \cup {SecretOf(a) : a \in ValidAddresses}

SubmitValues == {JSFalse, JSTrue, JSUndefined, JSNull, JSZero, JSString("")}
RecognizedOptions == {"submit"}
OptionKeys == RecognizedOptions \cup {"sbumit"}

\* every options object over OptionKeys: "submit" may be missing or carry any
\* of SubmitValues, the misspelled key carries true
OptionsObjects ==
  {[k \in keys |-> IF k = "submit" THEN sv ELSE JSTrue] :
     keys \in SUBSET OptionKeys, sv \in SubmitValues}

NoArgs == [account |-> "none", secret |-> JSUndefined, options |-> EmptyObject]

(***************************************************************************)
(* lib/validate: each check yields "ok" or the name of the error it throws *)
(***************************************************************************)
validateAddress(address) ==
  IF address \in ValidAddresses THEN "ok" ELSE "InvalidAddress"

validateSecretFor(address, secret) ==
  IF secret.t # "string" \/ secret.v = "" THEN "InvalidSecret"
  ELSE IF secret # SecretOf(address) THEN "AddressSecretMismatch"
  ELSE "ok"

\* the secret is mandatory: its absence is an error
addressAndSecret(address, secret) ==
  IF validateAddress(address) # "ok" THEN validateAddress(address)
  ELSE validateSecretFor(address, secret)

\* the secret is optional: it is checked only when present
addressAndMaybeSecret(address, secret) ==
  IF validateAddress(address) # "ok" THEN validateAddress(address)
  ELSE IF StrictEquals(secret, JSUndefined) THEN "ok"
  ELSE validateSecretFor(address, secret)

validateOptions(options) ==
  IF (DOMAIN options) \subseteq RecognizedOptions THEN "ok"
  ELSE "UnrecognizedOption"

\* two statements in sequence: the first throw wins
FirstError(e1, e2) == IF e1 # "ok" THEN e1 ELSE e2

(***************************************************************************)
(* Constants of the test harness and of the ledger fixtures.               *)
(***************************************************************************)
\* a validity window one ledger shorter
LEDGER_OFFSET_Two == 3 - 1

LEDGER_OFFSET == 3

\* fixtures.ledgerClose(offset): the ledger index of the close message
BaseLedger == 10
ledgerClose(offset) == BaseLedger + offset

(***************************************************************************)
(* transaction/sign and the converter handed to transact.                  *)
(***************************************************************************)
TxJSON(account, sequence, lastLedger) ==
  [Account |-> account, Sequence |-> sequence, LastLedgerSequence |-> lastLedger]

sign(tx_json, secret) ==
  ("tx_blob" :> [signed |-> tx_json, key |-> secret.v]) @@
  ("hash" :> [of |-> tx_json, key |-> secret.v])

\* converter(prepared, {}): the fields the converter derives; "state" is a
\* key of its own, "hash" collides with the signer's key
converter(prepared) ==
  ("state" :> JSString("converted")) @@
  ("hash" :> [of |-> prepared["tx_json"], key |-> "converter"])

\* the transaction is signed whatever the secret is
signIfSecretExists_Always(secret, prepared) ==
  Assign(prepared, sign(prepared["tx_json"], secret))

signIfSecretExists(secret, prepared) ==
  LET signResponse ==
        IF ToBoolean(secret) THEN sign(prepared["tx_json"], secret)
        ELSE EmptyObject
  IN  Assign(prepared, signResponse)

formatResponse(prepared) == Assign(prepared, converter(prepared))

\* a truthiness test in place of the exact comparison: !options.submit
SubmitIsFalsy(options) == ~ToBoolean(Get(options, "submit"))

\* options.submit === false
SubmitIsFalse(options) == StrictEquals(Get(options, "submit"), JSFalse)

\* a prepare pipeline that hands the transaction to transactions.submit
PrepareTasks_Submitting == <<"submit", "signIfSecretExists", "formatResponse">>

\* the task lists handed to async.waterfall
PrepareTasks == <<"createTxJSON", "signIfSecretExists", "formatResponse">>
\* the response is formatted before the submission
SubmitTasks_ConverterFirst == <<"converter", "submit">>

SubmitTasks == <<"submit", "converter">>

TasksOf(fn) ==
  IF fn = "prepareAndOptionallySign" THEN PrepareTasks ELSE SubmitTasks

\* the task after task cur, or "callback" after the last one
NextTask(tasks, cur) ==
  LET i == CHOOSE j \in 1 .. Len(tasks) : tasks[j] = cur
  IN  IF i < Len(tasks) THEN tasks[i + 1] ELSE "callback"

(***************************************************************************)
(* State.                                                                  *)
(***************************************************************************)
VARIABLES
  nCalls,              \* number of calls of transact so far
  lastCall,            \* the arguments of the call of transact that just returned
  account,             \* transaction.tx_json.Account, kept by a call's tasks
  secret,              \* the secret kept by a call's tasks
  ran,                 \* which of the two pipelines each call entered
  pc,                  \* where each call is: idle, thrown, a task, done
  thrown,              \* the validation error a call threw, or "none"
  value,               \* the value passed along a call's waterfall
  callbacks,           \* the invocations of each call's callback
  net,                 \* the network requests each call has started
  respDue,             \* a response to the call's state query is on its way
  entries,             \* PendingEntry records by <<account, sequence>>
  pending,             \* the pending queue (active set) of each account
  signals,             \* the outcomes signalled to the waiter of each entry
  anomalies,           \* keys whose confirmation came after local expiry
  currentLedger,       \* index of the last ledger close the tracker saw
  nextSeq,             \* next sequence number of each account
  wire,                \* ledger-close messages sent and not yet delivered
  closeLedgersCalled,  \* closeLedgers has run
  connected,           \* the remote is connected
  submitListener,      \* the test case listens for request_submit
  harnessErrors,       \* the events for which onAny threw "Should not ..."
  args,                \* the keyword arguments handed to loadArguments
  defaults,            \* the defaults handed to loadArguments
  loadPc,              \* loadArguments: idle, returned or threw
  message,             \* the message of the assertion loadArguments failed
  random,              \* ripple.sjcl.random, the global entropy source
  prng,                \* the source each withDeterministicPRNG call saved
  prngPc,              \* each withDeterministicPRNG call: idle, started, completed
  heap,                \* the objects of one prepare-only pipeline, by reference
  prepared,            \* the reference handed to the next stage
  stageSecret,         \* the secret bound to signIfSecretExists
  stagePc,             \* the stage that runs next
  returned             \* the references the stages have returned

taskVars ==
  <<nCalls, account, secret, ran, pc, thrown, value, callbacks, net, respDue>>
callVars == <<lastCall, taskVars>>
trackerVars == <<entries, pending, signals, anomalies, currentLedger>>
netVars == <<nextSeq, wire, closeLedgersCalled, connected>>
harnessVars == <<submitListener, harnessErrors>>
utilVars == <<args, defaults, loadPc, message, random, prng, prngPc>>
stageVars == <<heap, prepared, stageSecret, stagePc, returned>>
vars == <<callVars, trackerVars, netVars, harnessVars, utilVars, stageVars>>

NoKeys == {}

\* no call of transact yet, nothing pending, the remote connected
InitPipeline ==
  /\ nCalls = 0
  /\ lastCall = NoArgs
  /\ account = [c \in Calls |-> "none"]
  /\ secret = [c \in Calls |-> JSUndefined]
  /\ ran = [c \in Calls |-> {}]
  /\ pc = [c \in Calls |-> "idle"]
  /\ thrown = [c \in Calls |-> "none"]
  /\ value = [c \in Calls |-> EmptyObject]
  /\ callbacks = [c \in Calls |-> <<>>]
  /\ net = [c \in Calls |-> {}]
  /\ respDue = [c \in Calls |-> FALSE]
  /\ entries = [k \in NoKeys |-> 0]
  /\ pending = [a \in ValidAddresses |-> <<>>]
  /\ signals = [k \in NoKeys |-> <<>>]
  /\ anomalies = {}
  /\ currentLedger = ledgerClose(0)
  /\ nextSeq = [a \in ValidAddresses |-> 1]
  /\ wire = <<>>
  /\ closeLedgersCalled = FALSE
  /\ connected = TRUE
  /\ submitListener \in BOOLEAN
  /\ harnessErrors = {}

\* the real entropy source, and the mock the i-th withDeterministicPRNG
\* call creates with  new PRNGMock()
RealRandom == [mock |-> FALSE, id |-> 0]
PRNGMock(i) == [mock |-> TRUE, id |-> i]

MaxInvocations == 2
Invocations == 1 .. MaxInvocations

\* the test utilities have not been called: ripple.sjcl.random is the real
\* source
NoUtilityCalled ==
  /\ loadPc = "idle"
  /\ message = <<>>
  /\ random = RealRandom
  /\ prng = [i \in Invocations |-> RealRandom]
  /\ prngPc = [i \in Invocations |-> "idle"]

\* no object of a pipeline is followed by reference
NoStage ==
  /\ heap = <<>>
  /\ prepared = 0
  /\ stageSecret = JSUndefined
  /\ stagePc = "idle"
  /\ returned = <<>>

Init ==
  /\ InitPipeline
  /\ args = EmptyObject
  /\ defaults = EmptyObject
  /\ NoUtilityCalled
  /\ NoStage

(***************************************************************************)
(* setupServer: the catch-all listener of the test server.                 *)
(***************************************************************************)
\* wss.onAny: an event nobody listens for throws "Should not <event>"
onAnyThrows(nListeners) == nListeners = 0

SubmitListeners == IF submitListener THEN 1 ELSE 0

\* an event nobody listens for makes the test server throw: the test case
\* has failed and ends there
Running == harnessErrors = {}

\* the query of the network state (account sequence, current ledger) that
\* createTxJSON and transactions.submit start; the server answers it
RequestAccountInfo(c) ==
  /\ net' = [net EXCEPT ![c] = @ \cup {"account_info"}]
  /\ respDue' = [respDue EXCEPT ![c] = connected]

(***************************************************************************)
(* api/transact.js                                                         *)
(***************************************************************************)
\* async.waterfall, for call c whose current task ended with (err, result):
\* an error goes straight to the final callback, a result goes to the next
\* task, the last task's result goes to the callback
\* a failed submission is tried again: the error of the submit task starts
\* the task once more
WaterfallStep_Retry(c, err, result) ==
  LET next == NextTask(TasksOf(CHOOSE f \in ran[c] : TRUE), pc[c])
  IN  IF err # "none" /\ pc[c] = "submit"
      THEN [pc |-> "submit", value |-> value[c], callbacks |-> callbacks[c]]
      ELSE IF err # "none"
      THEN [pc |-> "done", value |-> value[c],
            callbacks |-> Append(callbacks[c], [err |-> err, data |-> EmptyObject])]
      ELSE IF next = "callback"
      THEN [pc |-> "done", value |-> result,
            callbacks |-> Append(callbacks[c], [err |-> "none", data |-> result])]
      ELSE [pc |-> next, value |-> result, callbacks |-> callbacks[c]]

\* the error of a task is dropped: the waterfall stops and the callback is
\* never called
WaterfallStep_DropError(c, err, result) ==
  LET next == NextTask(TasksOf(CHOOSE f \in ran[c] : TRUE), pc[c])
  IN  IF err # "none"
      THEN [pc |-> "done", value |-> value[c], callbacks |-> callbacks[c]]
      ELSE IF next = "callback"
      THEN [pc |-> "done", value |-> result,
            callbacks |-> Append(callbacks[c], [err |-> "none", data |-> result])]
      ELSE [pc |-> next, value |-> result, callbacks |-> callbacks[c]]

\* no short-circuit: after a task's error the next task runs all the same
WaterfallStep_NoShortCircuit(c, err, result) ==
  LET next == NextTask(TasksOf(CHOOSE f \in ran[c] : TRUE), pc[c])
  IN  IF next = "callback"
      THEN [pc |-> "done", value |-> result,
            callbacks |-> Append(callbacks[c],
                                 [err |-> err,
                                  data |-> IF err # "none" THEN EmptyObject
                                           ELSE result])]
      ELSE [pc |-> next, value |-> IF err # "none" THEN value[c] ELSE result,
            callbacks |-> callbacks[c]]

\* a return is missing after the callback got the error: the callback is
\* called a second time
WaterfallStep_CallbackTwice(c, err, result) ==
  LET next == NextTask(TasksOf(CHOOSE f \in ran[c] : TRUE), pc[c])
  IN  IF err # "none"
      THEN [pc |-> "done", value |-> value[c],
            callbacks |-> callbacks[c] \o <<[err |-> err, data |-> EmptyObject],
                                            [err |-> "none", data |-> value[c]]>>]
      ELSE IF next = "callback"
      THEN [pc |-> "done", value |-> result,
            callbacks |-> Append(callbacks[c], [err |-> "none", data |-> result])]
      ELSE [pc |-> next, value |-> result, callbacks |-> callbacks[c]]

WaterfallStep(c, err, result) ==
  LET next == NextTask(TasksOf(CHOOSE f \in ran[c] : TRUE), pc[c])
  IN  IF err # "none"
      THEN [pc |-> "done", value |-> value[c],
            callbacks |-> Append(callbacks[c], [err |-> err, data |-> EmptyObject])]
      ELSE IF next = "callback"
      THEN [pc |-> "done", value |-> result,
            callbacks |-> Append(callbacks[c], [err |-> "none", data |-> result])]
      ELSE [pc |-> next, value |-> result, callbacks |-> callbacks[c]]

Waterfall(c, err, result) ==
  LET step == WaterfallStep(c, err, result)
  IN  /\ pc' = [pc EXCEPT ![c] = step.pc]
      /\ value' = [value EXCEPT ![c] = step.value]
      /\ callbacks' = [callbacks EXCEPT ![c] = step.callbacks]

\* the tasks are started: they keep the account and the secret
StartTasks(c, acct, sec, first) ==
  /\ pc' = [pc EXCEPT ![c] = first]
  /\ account' = [account EXCEPT ![c] = acct]
  /\ secret' = [secret EXCEPT ![c] = sec]
  /\ RequestAccountInfo(c)
  /\ UNCHANGED <<thrown, harnessErrors>>

\* a validation throws: nothing is started
Throw(c, err) ==
  /\ thrown' = [thrown EXCEPT ![c] = err]
  /\ pc' = [pc EXCEPT ![c] = "thrown"]
  /\ UNCHANGED <<account, secret, net, respDue, harnessErrors>>

prepareAndOptionallySign(c, acct, sec, options) ==
  LET err == FirstError(addressAndMaybeSecret(acct, sec),
                        validateOptions(options))
  IN  /\ ran' = [ran EXCEPT ![c] = @ \cup {"prepareAndOptionallySign"}]
      /\ IF err # "ok" THEN Throw(c, err)
         ELSE StartTasks(c, acct, sec, PrepareTasks[1])

\* the validation results are ignored: the tasks start whatever they are
prepareAndSignAndSubmit_NoAbort(c, acct, sec, options) ==
  /\ ran' = [ran EXCEPT ![c] = @ \cup {"prepareAndSignAndSubmit"}]
  /\ StartTasks(c, acct, sec, SubmitTasks[1])

\* the optional-secret validation in the submission pipeline
prepareAndSignAndSubmit_MaybeSecret(c, acct, sec, options) ==
  LET err == FirstError(addressAndMaybeSecret(acct, sec),
                        validateOptions(options))
  IN  /\ ran' = [ran EXCEPT ![c] = @ \cup {"prepareAndSignAndSubmit"}]
      /\ IF err # "ok" THEN Throw(c, err)
         ELSE StartTasks(c, acct, sec, SubmitTasks[1])

prepareAndSignAndSubmit(c, acct, sec, options) ==
  LET err == FirstError(addressAndSecret(acct, sec),
                        validateOptions(options))
  IN  /\ ran' = [ran EXCEPT ![c] = @ \cup {"prepareAndSignAndSubmit"}]
      /\ IF err # "ok" THEN Throw(c, err)
         ELSE StartTasks(c, acct, sec, SubmitTasks[1])

transact(c, acct, sec, options) ==
  /\ Running
  /\ c = nCalls + 1
  /\ nCalls' = c
  /\ lastCall' = [account |-> acct, secret |-> sec, options |-> options]
  /\ UNCHANGED <<utilVars, stageVars>>
  /\ IF SubmitIsFalse(options)
     THEN prepareAndOptionallySign(c, acct, sec, options)
     ELSE prepareAndSignAndSubmit(c, acct, sec, options)
  /\ UNCHANGED <<value, callbacks, trackerVars, netVars, submitListener>>

\* createTxJSON's callback: the network state arrived, or the query failed
createTxJSON(c, outcome) ==
  /\ Running
  /\ pc[c] = "createTxJSON"
  /\ IF outcome = "ok"
     THEN /\ respDue[c] /\ connected
          /\ Waterfall(c, "none",
               "tx_json" :> TxJSON(account[c], nextSeq[account[c]],
                                   currentLedger + LEDGER_OFFSET))
     ELSE Waterfall(c, outcome, EmptyObject)
  /\ respDue' = [respDue EXCEPT ![c] = FALSE]
  /\ lastCall' = NoArgs
  /\ UNCHANGED <<utilVars, stageVars>>
  /\ UNCHANGED <<nCalls, account, secret, ran, thrown, net,
                 trackerVars, netVars, harnessVars>>

\* the asyncified signIfSecretExists task: asyncify hands what the function
\* returns to the waterfall, and what it throws (sign is the only call in it
\* that can throw, and it is made only with a secret) as the task's error
signTask(c, outcome) ==
  /\ Running
  /\ pc[c] = "signIfSecretExists"
  /\ IF outcome = "ok"
     THEN Waterfall(c, "none", signIfSecretExists(secret[c], value[c]))
     ELSE /\ ToBoolean(secret[c])
          /\ Waterfall(c, outcome, EmptyObject)
  /\ lastCall' = NoArgs
  /\ UNCHANGED <<utilVars, stageVars>>
  /\ UNCHANGED <<nCalls, account, secret, ran, thrown, net, respDue,
                 trackerVars, netVars, harnessVars>>

\* the asyncified formatResponse task: the converter returns, or throws
formatTask(c, outcome) ==
  /\ Running
  /\ pc[c] = "formatResponse"
  /\ IF outcome = "ok"
     THEN Waterfall(c, "none", formatResponse(value[c]))
     ELSE Waterfall(c, outcome, EmptyObject)
  /\ lastCall' = NoArgs
  /\ UNCHANGED <<utilVars, stageVars>>
  /\ UNCHANGED <<nCalls, account, secret, ran, thrown, net, respDue,
                 trackerVars, netVars, harnessVars>>

\* the asyncified converter task of the submission pipeline: the response
\* is what the converter returns
converterTask(c, outcome) ==
  /\ Running
  /\ pc[c] = "converter"
  /\ IF outcome = "ok"
     THEN Waterfall(c, "none", converter(value[c]))
     ELSE Waterfall(c, outcome, EmptyObject)
  /\ lastCall' = NoArgs
  /\ UNCHANGED <<utilVars, stageVars>>
  /\ UNCHANGED <<nCalls, account, secret, ran, thrown, net, respDue,
                 trackerVars, netVars, harnessVars>>

(***************************************************************************)
(* The pending tracker: PendingEntry records and the active set.           *)
(***************************************************************************)
Active == UNION {{pending[a][i] : i \in 1 .. Len(pending[a])} : a \in ValidAddresses}

PendingEntry(acct, sequence, waiter) ==
  [account |-> acct, sequence |-> sequence,
   LastLedgerSequence |-> currentLedger + LEDGER_OFFSET,
   submittedAtLedger |-> currentLedger, status |-> "pending", waiter |-> waiter]

\* the entries of keys get the terminal status st and leave the active set
Settle(keys, st) ==
  /\ entries' = [k \in DOMAIN entries |->
                   IF k \in keys THEN [entries[k] EXCEPT !.status = st]
                   ELSE entries[k]]
  /\ pending' = [a \in ValidAddresses |->
                   SelectSeq(pending[a], LAMBDA k : k \notin keys)]

\* the outcome is surfaced to the waiters of keys: each waiter's submit task
\* ends with it
Surface(keys, outcome, err) ==
  LET waiters == {entries[k].waiter : k \in keys}
      step(c) == WaterfallStep(c, err, Assign(value[c], "result" :> JSString(outcome)))
  IN  /\ signals' = [k \in DOMAIN signals |->
                       IF k \in keys THEN Append(signals[k], outcome) ELSE signals[k]]
      /\ pc' = [c \in Calls |-> IF c \in waiters THEN step(c).pc ELSE pc[c]]
      /\ value' = [c \in Calls |-> IF c \in waiters THEN step(c).value ELSE value[c]]
      /\ callbacks' = [c \in Calls |->
                         IF c \in waiters THEN step(c).callbacks ELSE callbacks[c]]

\* transactions.submit once the network state has arrived: the transaction is
\* built, signed and handed to the network, and registered as pending
submitTask(c, outcome) ==
  LET key == <<account[c], nextSeq[account[c]]>>
      tx == TxJSON(account[c], nextSeq[account[c]], currentLedger + LEDGER_OFFSET)
  IN  /\ Running
      /\ pc[c] = "submit"
      /\ c \notin {entries[k].waiter : k \in DOMAIN entries}
      /\ respDue' = [respDue EXCEPT ![c] = FALSE]
      /\ IF outcome = "NetworkUnavailable"
         THEN /\ Waterfall(c, outcome, EmptyObject)
              /\ UNCHANGED <<net, trackerVars, nextSeq, harnessErrors>>
         ELSE /\ respDue[c] /\ connected
              /\ net' = [net EXCEPT ![c] = @ \cup {"submit"}]
              /\ harnessErrors' =
                   IF onAnyThrows(SubmitListeners)
                   THEN harnessErrors \cup {"request_submit"}
                   ELSE harnessErrors
              /\ IF outcome = "rejected"
                 THEN /\ ~onAnyThrows(SubmitListeners)
                      /\ Waterfall(c, "SubmissionRejected", EmptyObject)
                      /\ UNCHANGED <<trackerVars, nextSeq>>
                 ELSE /\ entries' =
                           [k \in DOMAIN entries \cup {key} |->
                              IF k = key THEN PendingEntry(key[1], key[2], c)
                              ELSE entries[k]]
                      /\ signals' = [k \in DOMAIN signals \cup {key} |->
                                       IF k = key THEN <<>> ELSE signals[k]]
                      /\ pending' = [pending EXCEPT ![key[1]] = Append(@, key)]
                      /\ nextSeq' = [nextSeq EXCEPT ![key[1]] = @ + 1]
                      /\ value' = [value EXCEPT ![c] =
                                     Assign("tx_json" :> tx, sign(tx, secret[c]))]
                      /\ UNCHANGED <<pc, callbacks, anomalies, currentLedger>>
      /\ lastCall' = NoArgs
      /\ UNCHANGED <<utilVars, stageVars>>
  /\ UNCHANGED <<utilVars, stageVars>>
  /\ UNCHANGED <<nCalls, account, secret, ran, thrown, wire,
                     closeLedgersCalled, connected, submitListener>>

\* a late confirmation wins: it settles the entry whatever its status
onConfirmation_LateWins(key) ==
  /\ Running
  /\ connected
  /\ key \in DOMAIN entries
  /\ Settle({key}, "succeeded")
  /\ signals' = [signals EXCEPT ![key] = Append(@, "tesSUCCESS")]
  /\ lastCall' = NoArgs
  /\ UNCHANGED <<utilVars, stageVars>>
  /\ UNCHANGED <<taskVars, anomalies, currentLedger, netVars, harnessVars>>

\* a confirmation notification matching key arrives
onConfirmation(key) ==
  /\ Running
  /\ connected
  /\ key \in DOMAIN entries
  /\ IF key \in Active /\ entries[key].status = "pending"
     THEN /\ Settle({key}, "succeeded")
          /\ Surface({key}, "tesSUCCESS", "none")
          /\ UNCHANGED anomalies
     ELSE /\ anomalies' =
               IF entries[key].status = "expired" THEN anomalies \cup {key}
               ELSE anomalies
          /\ UNCHANGED <<entries, pending, signals, pc, value, callbacks>>
  /\ lastCall' = NoArgs
  /\ UNCHANGED <<utilVars, stageVars>>
  /\ UNCHANGED <<nCalls, account, secret, ran, thrown, net, respDue,
                 currentLedger, netVars, harnessVars>>

\* the window closes one ledger early: <= in place of <
ExpiredBy_Early(ledgerIndex) ==
  {k \in Active : entries[k].status = "pending"
                  /\ entries[k].LastLedgerSequence <= ledgerIndex}

\* the expiry does not look at the status: a settled entry expires again
ExpiredBy_Unserialized(ledgerIndex) ==
  {k \in DOMAIN entries : /\ entries[k].status # "expired"
                          /\ entries[k].LastLedgerSequence < ledgerIndex}

\* the entries a ledger close with this index expires
ExpiredBy(ledgerIndex) ==
  {k \in Active : entries[k].status = "pending"
                  /\ entries[k].LastLedgerSequence < ledgerIndex}

\* the next ledger-close message on the wire is delivered to the tracker
onLedgerClosed ==
  /\ Running
  /\ connected
  /\ wire # <<>>
  /\ wire' = Tail(wire)
  /\ currentLedger' = Head(wire)
  /\ Settle(ExpiredBy(Head(wire)), "expired")
  /\ Surface(ExpiredBy(Head(wire)), "Expired", "Expired")
  /\ lastCall' = NoArgs
  /\ UNCHANGED <<utilVars, stageVars>>
  /\ UNCHANGED <<nCalls, account, secret, ran, thrown, net, respDue,
                 anomalies, nextSeq, closeLedgersCalled, connected, harnessVars>>

(***************************************************************************)
(* The test utilities: closeLedgers and teardown.                          *)
(***************************************************************************)
\* the loop stops at LEDGER_OFFSET: the last close sent is LastLedgerSequence
ClosesSent_TooFew == [i \in 1 .. LEDGER_OFFSET |-> ledgerClose((i - 1) + 1)]

\* for (i = 0; i < LEDGER_OFFSET + 2; i++) conn.send(ledgerClose(i + 1))
ClosesSent == [i \in 1 .. LEDGER_OFFSET + 2 |-> ledgerClose((i - 1) + 1)]

closeLedgers ==
  /\ Running
  /\ connected
  /\ ~closeLedgersCalled
  /\ closeLedgersCalled' = TRUE
  /\ wire' = wire \o ClosesSent
  /\ lastCall' = NoArgs
  /\ UNCHANGED <<utilVars, stageVars>>
  /\ UNCHANGED <<taskVars, trackerVars, nextSeq, connected, harnessVars>>

\* TransactionQueue.remove: the entry equal to tx is spliced out
remove(queue, tx) ==
  IF \E i \in 1 .. Len(queue) : queue[i] = tx
  THEN LET i == CHOOSE j \in 1 .. Len(queue) :
                  queue[j] = tx /\ \A m \in (j + 1) .. Len(queue) : queue[m] # tx
       IN  SubSeq(queue, 1, i - 1) \o SubSeq(queue, i + 1, Len(queue))
  ELSE queue

\* queue.forEach(queue.remove.bind(queue)): the array's forEach visits the
\* indexes 0 .. len-1 of the array as it is when each index comes up, and
\* skips an index that is no longer there
RECURSIVE forEachRemove(_, _, _)
forEachRemove(queue, k, len) ==
  IF k >= len THEN queue
  ELSE IF k < Len(queue) THEN forEachRemove(remove(queue, queue[k + 1]), k + 1, len)
  ELSE forEachRemove(queue, k + 1, len)

\* teardown: the disconnect handler walks the pending queue of addresses.VALID
teardown ==
  /\ Running
  /\ connected
  /\ connected' = FALSE
  /\ pending' = [pending EXCEPT !["VALID"] = forEachRemove(@, 0, Len(@))]
  /\ wire' = <<>>
  /\ lastCall' = NoArgs
  /\ UNCHANGED <<utilVars, stageVars>>
  /\ UNCHANGED <<taskVars, entries, signals, anomalies, currentLedger, nextSeq,
                 closeLedgersCalled, harnessVars>>

(***************************************************************************)
(* The test utilities: loadArguments and withDeterministicPRNG.            *)
(***************************************************************************)
\* the keyword arguments of the fixtures, in the order the keys are listed
KeyOrder == <<"hash", "memos", "flags">>
ArgValues == {JSUndefined, JSString("given")}
DefaultValues == {JSString("default")}

ArgsObjects ==
  UNION {[keys -> ArgValues] : keys \in SUBSET {KeyOrder[i] : i \in 1 .. Len(KeyOrder)}}
DefaultsObjects ==
  UNION {[keys -> DefaultValues] : keys \in SUBSET {KeyOrder[i] : i \in 1 .. Len(KeyOrder)}}

\* _.keys(object): the object's own keys, a key whose value is undefined
\* included
keys(object) == SelectSeq(KeyOrder, LAMBDA k : k \in DOMAIN object)

\* the two arrays taken the wrong way round
difference_Swapped(array, values) ==
  SelectSeq(values, LAMBDA x : \A i \in 1 .. Len(array) : array[i] # x)

\* _.difference(array, values): the elements of array that are not in values
difference(array, values) ==
  SelectSeq(array, LAMBDA x : \A i \in 1 .. Len(values) : values[i] # x)

\* _.defaults(object, source): source's value for every key that resolves
\* to undefined in object
Defaults(object, source) ==
  [k \in (DOMAIN object) \cup (DOMAIN source) |->
     IF k \in DOMAIN source /\ Get(object, k) = JSUndefined THEN source[k]
     ELSE object[k]]

\* loadArguments(args, defaults): the assertion throws before _.defaults
loadArguments ==
  LET unrecognizedArgs == difference(keys(args), keys(defaults))
  IN  /\ loadPc = "idle"
      /\ IF Len(unrecognizedArgs) = 0
         THEN /\ args' = Defaults(args, defaults)
              /\ loadPc' = "returned"
              /\ UNCHANGED message
         ELSE /\ loadPc' = "threw"
              /\ message' = <<"Error in test code: unrecognized keyword argument(s): ",
                              unrecognizedArgs>>
              /\ UNCHANGED args
      /\ UNCHANGED <<defaults, random, prng, prngPc>>
      /\ UNCHANGED <<callVars, trackerVars, netVars, harnessVars, stageVars>>

\* withDeterministicPRNG(callback, done), up to the call of callback: the
\* installed source is saved and a new mock installed
withDeterministicPRNG(i) ==
  /\ prngPc[i] = "idle"
  /\ prng' = [prng EXCEPT ![i] = random]
  /\ random' = PRNGMock(i)
  /\ prngPc' = [prngPc EXCEPT ![i] = "started"]
  /\ UNCHANGED <<args, defaults, loadPc, message>>
  /\ UNCHANGED <<callVars, trackerVars, netVars, harnessVars, stageVars>>

\* the function handed to callback is called: the saved source is installed
\* and done is called
completion(i) ==
  /\ prngPc[i] = "started"
  /\ random' = prng[i]
  /\ prngPc' = [prngPc EXCEPT ![i] = "completed"]
  /\ UNCHANGED <<args, defaults, loadPc, message, prng>>
  /\ UNCHANGED <<callVars, trackerVars, netVars, harnessVars, stageVars>>

\* a test case that calls the utilities: loadArguments with any keyword
\* arguments and defaults, withDeterministicPRNG up to MaxInvocations times
UtilInit ==
  /\ InitPipeline
  /\ args \in ArgsObjects
  /\ defaults \in DefaultsObjects
  /\ NoUtilityCalled
  /\ NoStage

UtilNext ==
  \/ loadArguments
  \/ \E i \in Invocations : withDeterministicPRNG(i)
  \/ \E i \in Invocations : completion(i)

UtilSpec == UtilInit /\ [][UtilNext]_vars

(***************************************************************************)
(* The objects of the prepare-only pipeline, followed by reference: the    *)
(* heap is the sequence of the objects allocated so far, a reference is an *)
(* index into it, and tx_json holds a reference to the TxJSON object.      *)
(***************************************************************************)
Ref(r) == [ref |-> r]

\* the keys createTxJSON's result may hold besides tx_json
ExtraKeys == {"hash", "state", "instructions"}
PreparedObjects ==
  {[k \in {"tx_json"} \cup extra |->
      IF k = "tx_json" THEN Ref(1) ELSE JSString("prepared")] :
     extra \in SUBSET ExtraKeys}

\* the object is assigned onto the prepared object itself
assignTarget_Prepared(preparedRef, fresh) == preparedRef

\* the first argument of _.assign: the fresh object {}
assignTarget(preparedRef, fresh) == fresh

\* _.assign(target, source1, source2), on the heap h in which the fresh
\* object {} is the last one: the target gets the keys of the sources, the
\* later source winning, and is what the call returns
assign(h, target, source1, source2) ==
  [h EXCEPT ![target] = Assign(Assign(@, source1), source2)]

\* createTxJSON has called back with a prepared object whose tx_json is the
\* TxJSON it built
StageInit ==
  /\ InitPipeline
  /\ args = EmptyObject
  /\ defaults = EmptyObject
  /\ NoUtilityCalled
  /\ \E a \in ValidAddresses, object \in PreparedObjects :
       heap = <<TxJSON(a, 1, ledgerClose(0) + LEDGER_OFFSET), object>>
  /\ prepared = 2
  /\ stageSecret \in {JSUndefined} \cup {SecretOf(a) : a \in ValidAddresses}
  /\ stagePc = "signIfSecretExists"
  /\ returned = <<>>

\* signIfSecretExists(secret, prepared) on references
signStage ==
  LET fresh == Len(heap) + 1
      h == Append(heap, EmptyObject)
      signResponse ==
        IF ToBoolean(stageSecret)
        THEN sign(heap[heap[prepared]["tx_json"].ref], stageSecret)
        ELSE EmptyObject
      target == assignTarget(prepared, fresh)
  IN  /\ stagePc = "signIfSecretExists"
      /\ heap' = assign(h, target, h[prepared], signResponse)
      /\ prepared' = target
      /\ returned' = Append(returned, target)
      /\ stagePc' = "formatResponse"
      /\ UNCHANGED stageSecret
      /\ UNCHANGED <<callVars, trackerVars, netVars, harnessVars, utilVars>>

\* formatResponse(converter, prepared) on references
formatStage ==
  LET fresh == Len(heap) + 1
      h == Append(heap, EmptyObject)
      target == assignTarget(prepared, fresh)
  IN  /\ stagePc = "formatResponse"
      /\ heap' = assign(h, target, h[prepared], converter(heap[prepared]))
      /\ prepared' = target
      /\ returned' = Append(returned, target)
      /\ stagePc' = "done"
      /\ UNCHANGED stageSecret
      /\ UNCHANGED <<callVars, trackerVars, netVars, harnessVars, utilVars>>

StageNext == signStage \/ formatStage

StageSpec == StageInit /\ [][StageNext]_vars

(***************************************************************************)
(* The network keeps closing ledgers: full submissions against a server    *)
(* that sends a ledger close after each one the remote has received.       *)
(***************************************************************************)
\* the closes the server sends with nothing pending
MaxCloses == 2

\* the server closes the next ledger and sends the close; it goes on for as
\* long as a transaction is pending
serverClosesLedger ==
  /\ Running
  /\ connected
  /\ wire = <<>>
  /\ \/ currentLedger < ledgerClose(MaxCloses)
     \/ \E k \in Active : entries[k].status = "pending"
  /\ wire' = <<currentLedger + 1>>
  /\ lastCall' = NoArgs
  /\ UNCHANGED <<taskVars, trackerVars, nextSeq, closeLedgersCalled, connected,
                 harnessVars, utilVars, stageVars>>

\* transact is called for a full submission, with valid arguments
CallSubmit ==
  \E a \in ValidAddresses, o \in {EmptyObject, "submit" :> JSTrue} :
    /\ nCalls < MaxCalls
    /\ transact(nCalls + 1, a, SecretOf(a), o)

\* the test case listens for request_submit
LiveInit == Init /\ submitListener

LiveNext ==
  \/ CallSubmit
  \/ \E c \in Calls, outcome \in {"accepted", "rejected", "NetworkUnavailable"} :
       submitTask(c, outcome)
  \/ \E c \in Calls, outcome \in {"ok", "ConverterFailed"} : converterTask(c, outcome)
  \/ \E key \in DOMAIN entries : onConfirmation(key)
  \/ serverClosesLedger
  \/ onLedgerClosed
  \/ teardown

\* the server keeps closing ledgers, the remote receives every close sent to
\* it, and a task scheduled with setImmediate runs
LiveSpec ==
  /\ LiveInit
  /\ [][LiveNext]_vars
  /\ WF_vars(serverClosesLedger)
  /\ WF_vars(onLedgerClosed)
  /\ WF_vars(\E c \in Calls : converterTask(c, "ok"))

\* transact is called, with any arguments
Call ==
  \E a \in Addresses, s \in Secrets, o \in OptionsObjects :
    /\ nCalls < MaxCalls
    /\ transact(nCalls + 1, a, s, o)

Next ==
  \/ Call
  \/ \E c \in Calls, outcome \in {"ok", "NetworkUnavailable"} : createTxJSON(c, outcome)
  \/ \E c \in Calls, outcome \in {"ok", "SignFailed"} : signTask(c, outcome)
  \/ \E c \in Calls, outcome \in {"ok", "ConverterFailed"} : formatTask(c, outcome)
  \/ \E c \in Calls, outcome \in {"ok", "ConverterFailed"} : converterTask(c, outcome)
  \/ \E c \in Calls, outcome \in {"accepted", "rejected", "NetworkUnavailable"} :
       submitTask(c, outcome)
  \/ \E key \in DOMAIN entries : onConfirmation(key)
  \/ onLedgerClosed
  \/ closeLedgers
  \/ teardown

Spec == Init /\ [][Next]_vars

(***************************************************************************)
(* Properties.                                                             *)
(***************************************************************************)
PrepareOnly == {"prepareAndOptionallySign"}
FullSubmission == {"prepareAndSignAndSubmit"}

\* transact has just returned: lastCall holds the arguments of call nCalls
JustCalled == lastCall # NoArgs

\* options.submit is the boolean false, and nothing else
ExactlyFalse(options) ==
  /\ "submit" \in DOMAIN options
  /\ options["submit"].t = "boolean"
  /\ options["submit"].v = "false"

WaiterOf(c) == {k \in DOMAIN entries : entries[k].waiter = c}

\* C1: every call of transact enters exactly one of the two pipelines, and it
\* enters the prepare-only pipeline if and only if options.submit is exactly
\* the boolean false; true, undefined, a missing key, 0, null and "" all
\* enter the full submission pipeline.
C1_ModeSelection ==
  /\ \A c \in Calls :
       IF c <= nCalls THEN ran[c] \in {PrepareOnly, FullSubmission}
       ELSE ran[c] = {}
  /\ JustCalled =>
       (ran[nCalls] = PrepareOnly <=> ExactlyFalse(lastCall.options))

\* a call with options.submit = 0 went down the full submission pipeline
C1_Witness ==
  /\ JustCalled
  /\ "submit" \in DOMAIN lastCall.options
  /\ lastCall.options["submit"] = JSZero
  /\ ran[nCalls] = FullSubmission
  /\ pc[nCalls] = "submit"

\* C2: a call with options.submit === false never hands a blob to the network
\* and never gets a PendingEntry, whether it fails or succeeds and whether or
\* not it has a secret; it is only ever in validation, createTxJSON,
\* signIfSecretExists or formatResponse; and the test server sees a
\* request_submit only from a full-submission call.
C2_PrepareNeverSubmits ==
  /\ \A c \in Calls :
       (ran[c] = PrepareOnly
          \/ (c = nCalls /\ JustCalled /\ ExactlyFalse(lastCall.options)))
       => /\ "submit" \notin net[c]
          /\ WaiterOf(c) = {}
          /\ pc[c] \in {"thrown", "createTxJSON", "signIfSecretExists",
                        "formatResponse", "done"}
  /\ "request_submit" \in harnessErrors =>
       \E c \in Calls : ran[c] = FullSubmission /\ "submit" \in net[c]

\* a prepare-only call with a secret has completed, signed, in a test case
\* that listens for no request_submit, and the test server saw none
C2_Witness ==
  \E c \in Calls :
    /\ ran[c] = PrepareOnly
    /\ pc[c] = "done"
    /\ ToBoolean(secret[c])
    /\ Len(callbacks[c]) = 1
    /\ callbacks[c][1].err = "none"
    /\ "tx_blob" \in DOMAIN callbacks[c][1].data
    /\ ~submitListener
    /\ harnessErrors = {}

\* the arguments fail the validation of the pipeline they select
FailsValidation(call) ==
  \/ call.account \notin ValidAddresses
  \/ ~((DOMAIN call.options) \subseteq RecognizedOptions)
  \/ /\ call.secret # JSUndefined
     /\ call.secret # SecretOf(call.account)
  \/ /\ call.secret = JSUndefined
     /\ ~ExactlyFalse(call.options)

\* C3: in both modes a call whose validation fails starts nothing: no query
\* of the network state, no submission, no PendingEntry, no callback, in the
\* state it returns in and in every later state.
C3_ValidationAborts ==
  /\ JustCalled /\ FailsValidation(lastCall) =>
       /\ pc[nCalls] = "thrown"
       /\ net[nCalls] = {}
  /\ \A c \in Calls :
       /\ thrown[c] # "none" <=> pc[c] = "thrown"
       /\ pc[c] = "thrown" =>
            /\ net[c] = {}
            /\ WaiterOf(c) = {}
            /\ callbacks[c] = <<>>
            /\ value[c] = EmptyObject

\* a full-submission call failed the validation of its options while another
\* call's transaction is pending
C3_Witness ==
  /\ JustCalled
  /\ ran[nCalls] = FullSubmission
  /\ thrown[nCalls] = "UnrecognizedOption"
  /\ lastCall.secret = SecretOf(lastCall.account)
  /\ \E k \in DOMAIN entries : entries[k].status = "pending"

\* C10: a call that selects full submission without a secret fails in
\* validation and transactions.submit is never invoked for it; a prepare-only
\* call without a secret (address and options valid) passes validation, and
\* its pipeline goes on without a signature.
C10_SecretMandatoryOnSubmit ==
  /\ JustCalled /\ lastCall.secret = JSUndefined =>
       IF ExactlyFalse(lastCall.options)
       THEN (lastCall.account \in ValidAddresses
               /\ (DOMAIN lastCall.options) \subseteq RecognizedOptions)
            => (pc[nCalls] = "createTxJSON" /\ thrown[nCalls] = "none")
       ELSE pc[nCalls] = "thrown" /\ net[nCalls] = {}
  /\ \A c \in Calls :
       /\ (pc[c] = "submit" \/ "submit" \in net[c]) => secret[c] # JSUndefined
       /\ (ran[c] = PrepareOnly /\ secret[c] = JSUndefined)
            => "tx_blob" \notin DOMAIN value[c]

\* full submission was asked for an otherwise valid request without a secret,
\* and the call threw
C10_Witness ==
  /\ JustCalled
  /\ lastCall.secret = JSUndefined
  /\ lastCall.account = "VALID"
  /\ lastCall.options = EmptyObject
  /\ ran[nCalls] = FullSubmission
  /\ thrown[nCalls] = "InvalidSecret"

(***************************************************************************)
(* Properties of the pending tracker.                                      *)
(***************************************************************************)
Keys == DOMAIN entries

Confirmed(k) == entries[k].status = "succeeded"

\* released by teardown: out of the active set with no status transition
Cancelled(k) == entries[k].status = "pending" /\ k \notin Active

InWindow(k) ==
  /\ entries[k].submittedAtLedger <= currentLedger
  /\ currentLedger <= entries[k].LastLedgerSequence

ExpiredResult == <<[err |-> "Expired", data |-> EmptyObject]>>

\* the entry is expired, out of the active set, and its waiter got Expired
ReportedExpired(k) ==
  /\ entries[k].status = "expired"
  /\ k \notin Active
  /\ signals[k] = <<"Expired">>
  /\ pc[entries[k].waiter] = "done"
  /\ callbacks[entries[k].waiter] = ExpiredResult

\* C4: a transaction submitted at ledger L with LastLedgerSequence = L + 3 and
\* never confirmed is expired, out of the active set and reported Expired to
\* the caller once the closes L+1 .. L+5 have been delivered; closeLedgers
\* sends exactly these LEDGER_OFFSET + 2 = 5 closes for L = ledgerClose(0).
C4_ExpiredAfterFiveCloses ==
  /\ \A k \in Keys :
       (/\ entries[k].LastLedgerSequence = entries[k].submittedAtLedger + 3
        /\ ~Confirmed(k)
        /\ currentLedger >= entries[k].submittedAtLedger + 5)
       => ReportedExpired(k)
  /\ (closeLedgersCalled /\ connected /\ wire = <<>>) =>
       /\ currentLedger = ledgerClose(0) + 5
       /\ \A k \in Keys :
            (entries[k].submittedAtLedger = ledgerClose(0) /\ ~Confirmed(k))
            => ReportedExpired(k)

\* all five closes of closeLedgers were delivered to a transaction submitted
\* at ledgerClose(0) that nobody confirmed
C4_Witness ==
  \E k \in Keys :
    /\ entries[k].submittedAtLedger = ledgerClose(0)
    /\ entries[k].LastLedgerSequence = ledgerClose(0) + 3
    /\ currentLedger = ledgerClose(0) + 5
    /\ closeLedgersCalled /\ wire = <<>>
    /\ ReportedExpired(k)

\* C5: the validity window is 3 ledgers (LastLedgerSequence = L + 3), and a
\* transaction that is neither confirmed nor cancelled is still pending, in
\* the active set and without any outcome after fewer than 4 closes; an entry
\* is expired only when the current ledger is beyond LastLedgerSequence.
C5_NoPrematureExpiry ==
  \A k \in Keys :
    /\ entries[k].LastLedgerSequence = entries[k].submittedAtLedger + 3
    /\ (/\ ~Confirmed(k)
        /\ ~Cancelled(k)
        /\ currentLedger - entries[k].submittedAtLedger < 4)
       => /\ entries[k].status = "pending"
          /\ k \in Active
          /\ signals[k] = <<>>
          /\ pc[entries[k].waiter] = "submit"
          /\ callbacks[entries[k].waiter] = <<>>
    /\ entries[k].status = "expired" =>
         currentLedger > entries[k].LastLedgerSequence

\* three closes were delivered and the transaction is still pending
C5_Witness ==
  \E k \in Keys :
    /\ currentLedger = entries[k].submittedAtLedger + 3
    /\ entries[k].status = "pending"
    /\ k \in Active
    /\ pc[entries[k].waiter] = "submit"

\* C6 as stated: status == pending if and only if
\* submittedAtLedger <= currentLedger <= LastLedgerSequence.
C6_PendingIffInWindow ==
  \A k \in Keys : entries[k].status = "pending" <=> InWindow(k)

\* C6, amended: a pending entry always lies inside its validity window, and an
\* entry inside its window is pending unless a confirmation has made it
\* succeeded: status == pending iff the entry is inside its window and has
\* not been confirmed.
C6_PendingIffInWindowUnconfirmed ==
  \A k \in Keys :
    /\ entries[k].status = "pending" <=> (InWindow(k) /\ ~Confirmed(k))
    /\ InWindow(k) => entries[k].status \in {"pending", "succeeded"}

\* an entry was confirmed inside its window while another one is pending at
\* the last ledger of its window
C6_Witness ==
  \E k \in Keys, k2 \in Keys :
    /\ Confirmed(k) /\ InWindow(k)
    /\ entries[k2].status = "pending"
    /\ currentLedger = entries[k2].LastLedgerSequence

\* C7: succeeded and expired are absorbing: an entry with a terminal status
\* keeps it and stays out of the active set in every step (a confirmation
\* after the expiry, further ledger closes), and the only changes of status
\* are pending -> succeeded and pending -> expired.
C7_TerminalAbsorbing ==
  [][\A k \in Keys :
       /\ entries[k].status \in {"succeeded", "expired"} =>
            /\ entries'[k].status = entries[k].status
            /\ k \notin Active'
       /\ entries'[k].status # entries[k].status =>
            /\ entries[k].status = "pending"
            /\ entries'[k].status \in {"succeeded", "expired"}]_vars

\* a confirmation arrived after the entry had expired, and it is still
\* expired and out of the active set
C7_Witness ==
  \E k \in Keys :
    /\ k \in anomalies
    /\ entries[k].status = "expired"
    /\ k \notin Active
    /\ currentLedger > entries[k].LastLedgerSequence + 1

\* the outcomes an entry's status allows
OutcomesOf(k) ==
  CASE entries[k].status = "pending" -> <<>>
    [] entries[k].status = "succeeded" -> <<"tesSUCCESS">>
    [] entries[k].status = "expired" -> <<"Expired">>

\* C8: whichever of expiry and confirmation is applied first to a key is the
\* one terminal transition it gets; the waiter receives exactly the outcome
\* of that transition, once, and its callback runs at most once (with
\* Expired after an expiry, with the converter's response or error after a
\* confirmation); a confirmation changes no entry but its own, and a ledger
\* close changes only entries whose window it ends.
C8_OneTerminalTransition ==
  /\ [](\A k \in Keys :
          /\ signals[k] = OutcomesOf(k)
          /\ Len(callbacks[entries[k].waiter]) <= 1
          /\ entries[k].status = "expired" =>
               callbacks[entries[k].waiter] = ExpiredResult
          /\ entries[k].status = "succeeded" =>
               /\ pc[entries[k].waiter] \in {"converter", "done"}
               /\ \A i \in 1 .. Len(callbacks[entries[k].waiter]) :
                    callbacks[entries[k].waiter][i].err \in {"none", "ConverterFailed"})
  /\ [][\A k \in Keys :
          entries'[k] # entries[k] =>
            \/ /\ entries'[k].status = "succeeded"
               /\ \A k2 \in Keys \ {k} :
                    entries'[k2] = entries[k2] /\ signals'[k2] = signals[k2]
            \/ /\ entries'[k].status = "expired"
               /\ currentLedger' > entries[k].LastLedgerSequence
               /\ \A k2 \in Keys \ {k} :
                    entries'[k2] # entries[k2] =>
                      currentLedger' > entries[k2].LastLedgerSequence]_vars

\* the confirmation came first and the close that ends the window left the
\* entry succeeded, while it expired another key
C8_Witness ==
  \E k \in Keys, k2 \in Keys :
    /\ Confirmed(k)
    /\ currentLedger > entries[k].LastLedgerSequence
    /\ signals[k] = <<"tesSUCCESS">>
    /\ entries[k2].status = "expired"
    /\ entries[k2].LastLedgerSequence = entries[k].LastLedgerSequence

\* C9: once the disconnect handler of teardown has walked the pending queue
\* of addresses.VALID, that queue is empty, and the walk moved no entry to
\* succeeded or expired and signalled nothing.
C9_TeardownReleasesAll ==
  ~connected =>
    /\ pending["VALID"] = <<>>
    /\ \A k \in Keys : Cancelled(k) => signals[k] = <<>>

(***************************************************************************)
(* Properties of the results of the two pipelines.                         *)
(***************************************************************************)
\* a secret was supplied to the call
Supplied(sec) == sec # JSUndefined

\* the results call c's callback received without an error
Results(c) ==
  {callbacks[c][i].data : i \in {j \in 1 .. Len(callbacks[c]) :
                                   callbacks[c][j].err = "none"}}

SigningFields == {"tx_blob", "hash"}

\* C11 as stated: the successful prepare-only result contains tx_json, it
\* contains tx_blob and hash if and only if a secret was supplied, and with a
\* secret they are the ones sign(prepared.tx_json, secret) produced.
C11_SigningFieldsIffSecret ==
  \A c \in Calls : ran[c] = PrepareOnly =>
    \A data \in Results(c) :
      /\ "tx_json" \in DOMAIN data
      /\ SigningFields \subseteq DOMAIN data <=> Supplied(secret[c])
      /\ ~Supplied(secret[c]) => "tx_blob" \notin DOMAIN data
      /\ Supplied(secret[c]) =>
           \A k \in SigningFields : data[k] = sign(data["tx_json"], secret[c])[k]

\* C11, amended: the output of the signing stage contains tx_json, and it
\* contains tx_blob and hash, as produced by sign(prepared.tx_json, secret),
\* if and only if a secret was supplied; the successful prepare-only result
\* contains tx_json, and for each of tx_blob and hash that the converter does
\* not supply it has the key if and only if a secret was supplied, with the
\* value sign produced; a key the converter supplies carries the converter's
\* value.
C11_SignedIffSecret ==
  \A c \in Calls : ran[c] = PrepareOnly =>
    /\ pc[c] = "formatResponse" =>
         /\ "tx_json" \in DOMAIN value[c]
         /\ value[c]["tx_json"].Account = account[c]
         /\ \A k \in SigningFields :
              /\ k \in DOMAIN value[c] <=> Supplied(secret[c])
              /\ k \in DOMAIN value[c] =>
                   value[c][k] = sign(value[c]["tx_json"], secret[c])[k]
    /\ \A data \in Results(c) :
         /\ "tx_json" \in DOMAIN data
         /\ data["tx_json"].Account = account[c]
         /\ \A k \in SigningFields \ DOMAIN converter(data) :
              /\ k \in DOMAIN data <=> Supplied(secret[c])
              /\ k \in DOMAIN data =>
                   data[k] = sign(data["tx_json"], secret[c])[k]
         /\ \A k \in DOMAIN converter(data) : data[k] = converter(data)[k]

\* one prepare-only call with a secret and one without have both succeeded:
\* the first result carries the signer's tx_blob, the second has none
C11_Witness ==
  \E c \in Calls, d \in Calls :
    /\ ran[c] = PrepareOnly /\ ran[d] = PrepareOnly
    /\ Supplied(secret[c]) /\ ~Supplied(secret[d])
    /\ \E data \in Results(c) :
         data["tx_blob"] = sign(data["tx_json"], secret[c])["tx_blob"]
    /\ \E data \in Results(d) :
         "tx_blob" \notin DOMAIN data /\ data["tx_json"].Account = account[d]

\* call c's last task hands its result to the callback in this step
Responds(c) ==
  /\ pc[c] \in {"formatResponse", "converter"}
  /\ pc'[c] = "done"
  /\ callbacks'[c] # callbacks[c]
  /\ callbacks'[c][Len(callbacks'[c])].err = "none"

\* C12: in either mode the response handed to the callback is the merge of
\* the pipeline result with the converter's fields: every key of the pipeline
\* result that the converter does not supply is in the response with the
\* pipeline's value, and a key the converter supplies has the converter's
\* value.
C12_ResponseIsMerge ==
  [][\A c \in Calls : Responds(c) =>
       LET response == callbacks'[c][Len(callbacks'[c])].data
           derived == converter(value[c])
       IN  /\ \A k \in (DOMAIN value[c]) \ (DOMAIN derived) :
                k \in DOMAIN response /\ response[k] = value[c][k]
           /\ \A k \in DOMAIN derived :
                k \in DOMAIN response /\ response[k] = derived[k]]_vars

(***************************************************************************)
(* Properties of the test utilities.                                       *)
(***************************************************************************)
\* the set of the elements of a sequence
Range(seq) == {seq[i] : i \in 1 .. Len(seq)}

\* C13: the validation of the keyword arguments fails closed: it succeeds if
\* and only if the keys of args are a subset of the keys of defaults; when it
\* fails, the failure names exactly the keys outside that set, the defaults
\* are not applied (args is left as it was) and nothing follows the failure;
\* when it succeeds, every key of defaults that args leaves undefined gets its
\* default and the given values are kept.
C13_FailsClosed ==
  [][/\ (loadPc = "idle" /\ loadPc' # "idle") =>
          /\ loadPc' = "returned" <=> (DOMAIN args) \subseteq (DOMAIN defaults)
          /\ loadPc' = "threw" <=> (DOMAIN args) \ (DOMAIN defaults) # {}
          /\ loadPc' = "threw" =>
               /\ Len(message') = 2
               /\ Range(message'[2]) = (DOMAIN args) \ (DOMAIN defaults)
               /\ args' = args
          /\ loadPc' = "returned" =>
               /\ message' = <<>>
               /\ DOMAIN args' = DOMAIN defaults
               /\ \A k \in DOMAIN defaults :
                    args'[k] = IF k \in DOMAIN args /\ args[k] # JSUndefined
                               THEN args[k] ELSE defaults[k]
     /\ loadPc = "threw" => (loadPc' = "threw" /\ args' = args /\ message' = message)
    ]_vars

\* loadArguments failed on {hash, memos, flags} against the defaults {memos}:
\* the message names hash and flags, and memos, left undefined, got no default
C13_Witness ==
  /\ loadPc = "threw"
  /\ DOMAIN defaults = {"memos"}
  /\ DOMAIN args = {"hash", "memos", "flags"}
  /\ args["memos"] = JSUndefined
  /\ message[2] = <<"hash", "flags">>

(***************************************************************************)
(* Properties of the full-submission pipeline.                             *)
(***************************************************************************)
Failure(err) == <<[err |-> err, data |-> EmptyObject]>>

\* the step hands call c's blob to the network: the network accepts it and a
\* PendingEntry is created, or rejects it and the call ends
Accepted(c) ==
  \E k \in (DOMAIN entries') \ (DOMAIN entries) : entries'[k].waiter = c
Rejected(c) ==
  /\ callbacks'[c] # callbacks[c]
  /\ callbacks'[c][Len(callbacks'[c])].err = "SubmissionRejected"

\* call c's submission has failed: it was rejected, or its entry expired
SubmissionFailed(c) ==
  \/ "submit" \in net[c] /\ WaiterOf(c) = {}
  \/ \E k \in WaiterOf(c) : entries[k].status = "expired"

\* C14: within one call a blob is handed to the network at most once and a
\* call never has a second PendingEntry; once the submission was rejected or
\* has expired, the callback has received exactly that failure, the call is
\* over, and no later step submits for it again, creates an entry for it or
\* calls back again.
C14_NoAutomaticRetry ==
  /\ [](\A c \in Calls :
          /\ Cardinality(WaiterOf(c)) <= 1
          /\ ("submit" \in net[c] /\ WaiterOf(c) = {}) =>
               (pc[c] = "done" /\ callbacks[c] = Failure("SubmissionRejected"))
          /\ (\E k \in WaiterOf(c) : entries[k].status = "expired") =>
               (pc[c] = "done" /\ callbacks[c] = Failure("Expired")))
  /\ [][\A c \in Calls :
          /\ (Accepted(c) \/ Rejected(c)) =>
               ("submit" \notin net[c] /\ WaiterOf(c) = {})
          /\ SubmissionFailed(c) =>
               /\ net'[c] = net[c]
               /\ pc'[c] = pc[c]
               /\ callbacks'[c] = callbacks[c]
               /\ {k \in DOMAIN entries' : entries'[k].waiter = c} = WaiterOf(c)
               /\ \A k \in WaiterOf(c) : entries'[k] = entries[k]]_vars

\* one call's submission was rejected and another's has expired: each
\* callback got its failure, once, and two more ledgers have closed since
\* the expiry
C14_Witness ==
  \E c \in Calls, d \in Calls :
    /\ callbacks[c] = Failure("SubmissionRejected")
    /\ "submit" \in net[c] /\ WaiterOf(c) = {}
    /\ callbacks[d] = Failure("Expired")
    /\ \E k \in WaiterOf(d) :
         /\ entries[k].status = "expired"
         /\ currentLedger = entries[k].LastLedgerSequence + 2

\* every key a PendingEntry can have
AllKeys == ValidAddresses \X (1 .. MaxCalls)

\* the entry of key k has a terminal status, is out of the active set, and
\* the pipeline waiting for it has returned
Settled(k) ==
  /\ k \in DOMAIN entries
  /\ entries[k].status \in {"succeeded", "expired"}
  /\ k \notin Active
  /\ pc[entries[k].waiter] = "done"
  /\ Len(callbacks[entries[k].waiter]) = 1

\* C15: while the server keeps closing ledgers and the remote stays
\* connected, every PendingEntry that was created eventually has a terminal
\* status (succeeded or expired), is out of the active set, and the pipeline
\* waiting for it has returned; and an entry leaves the status pending only
\* in a step in which a ledger close is delivered or a confirmation arrives,
\* so that it stays pending for as long as neither happens.
C15_EventuallySettled ==
  /\ \A k \in AllKeys :
       (k \in DOMAIN entries) ~> (Settled(k) \/ ~connected)
  /\ [][\A k \in DOMAIN entries :
          (entries[k].status = "pending" /\ entries'[k].status # "pending") =>
            \/ /\ currentLedger' > currentLedger
               /\ entries'[k].status = "expired"
            \/ /\ entries'[k].status = "succeeded"
               /\ signals'[k] = <<"tesSUCCESS">>]_vars

\* one entry was confirmed and its pipeline has returned the response, another
\* expired when the close after its window was delivered
C15_Witness ==
  \E k \in DOMAIN entries, k2 \in DOMAIN entries :
    /\ Settled(k) /\ entries[k].status = "succeeded"
    /\ Settled(k2) /\ entries[k2].status = "expired"
    /\ entries[k2].submittedAtLedger > ledgerClose(MaxCloses)
    /\ connected

(***************************************************************************)
(* Properties of the prepare-only waterfall.                               *)
(***************************************************************************)
\* the errors each stage of the prepare-only waterfall can end with
StageErrors ==
  [createTxJSON |-> {"NetworkUnavailable"},
   signIfSecretExists |-> {"SignFailed"},
   formatResponse |-> {"ConverterFailed"}]

\* C16: a prepare-only call goes through createTxJSON, signIfSecretExists and
\* formatResponse in this order, each stage receiving the result of the one
\* before; a stage that fails ends the call: the callback receives that
\* stage's error and no result, no later stage runs (after a createTxJSON
\* failure nothing is signed or converted, after a sign failure nothing is
\* converted), and nothing changes for the call afterwards.
C16_ShortCircuit ==
  /\ [](\A c \in Calls : ran[c] = PrepareOnly =>
          /\ callbacks[c] = Failure("NetworkUnavailable") => value[c] = EmptyObject
          /\ callbacks[c] = Failure("SignFailed") => DOMAIN value[c] = {"tx_json"}
          /\ callbacks[c] = Failure("ConverterFailed") =>
               "state" \notin DOMAIN value[c]
          /\ pc[c] = "signIfSecretExists" => DOMAIN value[c] = {"tx_json"}
          /\ pc[c] = "formatResponse" =>
               value[c] = signIfSecretExists(secret[c], [k \in {"tx_json"} |-> value[c][k]]))
  /\ [][\A c \in Calls : (ran'[c] = PrepareOnly /\ pc'[c] # pc[c]) =>
          \/ pc[c] = "idle" /\ pc'[c] \in {"thrown", "createTxJSON"}
          \/ /\ pc[c] \in DOMAIN StageErrors
             /\ pc'[c] = NextTask(PrepareTasks, pc[c])
             /\ callbacks'[c] = callbacks[c]
          \/ /\ pc[c] \in DOMAIN StageErrors
             /\ pc'[c] = "done"
             /\ \E err \in StageErrors[pc[c]] : callbacks'[c] = Failure(err)
             /\ value'[c] = value[c]
          \/ /\ pc[c] = "formatResponse"
             /\ pc'[c] = "done"
             /\ callbacks'[c] = <<[err |-> "none", data |-> value'[c]]>>
             /\ value'[c] = formatResponse(value[c])]_vars
  /\ [][\A c \in Calls : pc[c] = "done" =>
          (pc'[c] = "done" /\ value'[c] = value[c] /\ callbacks'[c] = callbacks[c])]_vars

\* one prepare-only call ended with the error of sign, before any conversion,
\* and another with the error of createTxJSON, before any signing
C16_Witness ==
  \E c \in Calls, d \in Calls :
    /\ ran[c] = PrepareOnly /\ ran[d] = PrepareOnly
    /\ pc[c] = "done" /\ callbacks[c] = Failure("SignFailed")
    /\ DOMAIN value[c] = {"tx_json"}
    /\ pc[d] = "done" /\ callbacks[d] = Failure("NetworkUnavailable")
    /\ Supplied(secret[d]) /\ value[d] = EmptyObject

\* the failures a submission can end with
SubmissionFailures == {"SubmissionRejected", "Expired", "NetworkUnavailable"}

\* C17: in full-submission mode the converter runs only after the submission
\* has settled successfully: while the call's PendingEntry is pending the call
\* is still in transactions.submit and has no response; the converter is due,
\* and runs, only for a call whose entry is succeeded and whose submit result
\* is the success outcome; and a submission that fails (SubmissionRejected,
\* Expired) goes from transactions.submit straight to the callback, with no
\* converted field in what the call holds.
C17_FormatAfterSettled ==
  /\ [](\A c \in Calls : ran[c] = FullSubmission =>
          /\ (\E k \in WaiterOf(c) : entries[k].status = "pending") =>
               (pc[c] = "submit" /\ callbacks[c] = <<>>)
          /\ pc[c] = "converter" =>
               /\ WaiterOf(c) # {}
               /\ \A k \in WaiterOf(c) : entries[k].status = "succeeded"
               /\ Get(value[c], "result") = JSString("tesSUCCESS")
          /\ (\E err \in SubmissionFailures : callbacks[c] = Failure(err)) =>
               (pc[c] = "done" /\ "state" \notin DOMAIN value[c])
          /\ \A data \in Results(c) :
               \E k \in WaiterOf(c) : entries[k].status = "succeeded")
  /\ [][\A c \in Calls : ran[c] = FullSubmission =>
          /\ (pc[c] = "converter" /\ pc'[c] # "converter") =>
               /\ \E k \in WaiterOf(c) : entries[k].status = "succeeded"
               /\ pc'[c] = "done"
          /\ (callbacks'[c] # callbacks[c]
                /\ callbacks'[c][Len(callbacks'[c])].err \in SubmissionFailures) =>
               (pc[c] = "submit" /\ pc'[c] = "done")]_vars

\* the converter is due for a call whose entry was confirmed, while another
\* call, whose entry expired, got Expired without any conversion, and the
\* first call's converter has not run during all of this
C17_Witness ==
  \E c \in Calls, d \in Calls :
    /\ pc[c] = "converter" /\ callbacks[c] = <<>>
    /\ \E k \in WaiterOf(c) : entries[k].status = "succeeded"
    /\ callbacks[d] = Failure("Expired")
    /\ "state" \notin DOMAIN value[d]

C19_CallbackOnce ==
  /\ [](/\ \A c \in Calls :
             /\ Len(callbacks[c]) <= 1
             /\ pc[c] = "done" <=> Len(callbacks[c]) = 1
             /\ thrown[c] # "none" <=> pc[c] = "thrown"
             /\ thrown[c] # "none" => callbacks[c] = <<>>
        /\ JustCalled =>
             (/\ callbacks[nCalls] = <<>>
              /\ thrown[nCalls] # "none" <=> FailsValidation(lastCall)))
  /\ [][\A c \in Calls :
          /\ callbacks[c] # <<>> => callbacks'[c] = callbacks[c]
          /\ thrown[c] # "none" =>
               (thrown'[c] = thrown[c] /\ callbacks'[c] = <<>> /\ pc'[c] = "thrown")
          /\ thrown'[c] # thrown[c] => (pc[c] = "idle" /\ c = nCalls')]_vars

\* one call threw its validation error and has no callback invocation; the
\* other, a full submission whose entry expired and was then confirmed too
\* late, was called back exactly once
C19_Witness ==
  \E c \in Calls, d \in Calls :
    /\ thrown[c] = "AddressSecretMismatch" /\ callbacks[c] = <<>>
    /\ pc[d] = "done" /\ Len(callbacks[d]) = 1
    /\ \E k \in WaiterOf(d) : k \in anomalies

\* C20: once every withDeterministicPRNG call that started has called its
\* completion, ripple.sjcl.random is again the source that was installed
\* before the first call, whether the calls followed each other or
\* overlapped; and while a call has not completed, the installed source is a
\* deterministic mock.
C20_EntropyRestored ==
  /\ (\A i \in Invocations : prngPc[i] # "started") => random = RealRandom
  /\ (\E i \in Invocations : prngPc[i] = "started") => random.mock
====
